---- MODULE Spec2Model ----
(***************************************************************************)
(* A model of harvest_report.cjs: the report pipeline of main (endpoint    *)
(* resolution, metadata loading, block collection, row assembly with the   *)
(* account cache and the reward aggregation) and the pure conversions      *)
(* norm, b32, rawToAddr, decXYM and impPct.                                *)
(*                                                                         *)
(* Text is modelled as a sequence of one-character strings.                *)
(***************************************************************************)
EXTENDS Integers, Sequences, FiniteSets, TLC

VARIABLES
    pc,        \* position of main: the next step of the async function
    reqs,      \* every remote request issued so far, with its outcome
    base,      \* const base (the resolved endpoint)
    net,       \* epoch, mosaicId, div, totalImp as loaded by main
    unlocked,  \* const unlocked (harvester keys)
    ki,        \* number of keys of unlocked already queried for blocks
    blocks,    \* let blocks
    bi,        \* number of entries of the sorted blocks already visited
    seen,      \* const seen (heights)
    rows,      \* const rows
    accCache,  \* const accCache, a Map from public key to account
    exit,      \* process exit status: "running", 0 or 1
    input,     \* argument of the pure function under check
    output,    \* its result
    work       \* b32: the bytes left to encode and val, bits, out

mainVars == <<pc, reqs, base, net, unlocked, ki, blocks, bi, seen, rows, accCache, exit>>
funVars == <<input, output, work>>
vars == <<pc, reqs, base, net, unlocked, ki, blocks, bi, seen, rows, accCache, exit,
          input, output, work>>

(***************************************************************************)
(* JSON values are tagged with their type, so that undefined can stand     *)
(* where a text, a number or an array is expected.                         *)
(***************************************************************************)
JsUndefined == [type |-> "undefined"]
JsNumber(n) == [type |-> "number", value |-> n]
JsText(s) == [type |-> "string", value |-> s]
JsArray(a) == [type |-> "array", value |-> a]

IsUndefined(x) == x.type = "undefined"

\* x ?? d
Coalesce(x, d) == IF IsUndefined(x) THEN d ELSE x

(***************************************************************************)
(* Sequence helpers                                                        *)
(***************************************************************************)
RECURSIVE SeqSum(_)
SeqSum(s) == IF s = <<>> THEN 0 ELSE Head(s) + SeqSum(Tail(s))

RECURSIVE Concat(_)
Concat(ss) == IF ss = <<>> THEN <<>> ELSE Head(ss) \o Concat(Tail(ss))

Range(s) == { s[i] : i \in DOMAIN s }

Repeat(c, n) == [i \in 1..n |-> c]

(***************************************************************************)
(* norm: String(s ?? '').replace(/'/g,'').replace(/^0x/i,'').toUpperCase() *)
(***************************************************************************)
LowerChars == <<"a", "b", "c", "d", "e", "f", "g", "x">>
UpperChars == <<"A", "B", "C", "D", "E", "F", "G", "X">>

toUpperCase(c) ==
    IF \E i \in DOMAIN LowerChars : LowerChars[i] = c
    THEN UpperChars[CHOOSE i \in DOMAIN LowerChars : LowerChars[i] = c]
    ELSE c

stripQuotes(s) == SelectSeq(s, LAMBDA c : c # "'")

strip0x(s) ==
    IF Len(s) >= 2 /\ s[1] = "0" /\ s[2] \in {"x", "X"}
    THEN SubSeq(s, 3, Len(s))
    ELSE s

norm(s) ==
    LET str == Coalesce(s, JsText(<<>>)).value
        t   == strip0x(stripQuotes(str))
    IN  [i \in 1..Len(t) |-> toUpperCase(t[i])]

(***************************************************************************)
(* 32-bit integer operators of JavaScript (<<, >>, |, &) on signed values  *)
(***************************************************************************)
\* v << n for 1 <= n <= 8: the low 32-n bits move up, bit 31-n becomes the sign
Shl32(v, n) ==
    LET h   == 2^(31 - n)
        low == v % h
        top == (v \div h) % 2
    IN  IF top = 1 THEN (low - h) * 2^n ELSE low * 2^n

\* v >> n, the sign-propagating shift
Sar32(v, n) == v \div 2^n

\* v & 31
And31(v) == v % 32

(***************************************************************************)
(* b32 and rawToAddr                                                       *)
(***************************************************************************)
B32 == <<"A", "B", "C", "D", "E", "F", "G", "H", "I", "J", "K", "L", "M", "N", "O", "P",
         "Q", "R", "S", "T", "U", "V", "W", "X", "Y", "Z", "2", "3", "4", "5", "6", "7">>

\* while(bits>=5){ out+=B32[(val>>(bits-5))&31]; bits-=5; }
RECURSIVE b32Drain(_)
b32Drain(st) ==
    IF st.bits >= 5
    THEN b32Drain([val  |-> st.val,
                   bits |-> st.bits - 5,
                   out  |-> Append(st.out, B32[And31(Sar32(st.val, st.bits - 5)) + 1])])
    ELSE st

\* val=(val<<8)|b; bits+=8; then the inner loop. The low 8 bits of val<<8 are
\* zero and 0 <= b <= 255, so the bitwise or is an addition.
b32Byte(st, b) ==
    b32Drain([val |-> Shl32(st.val, 8) + b, bits |-> st.bits + 8, out |-> st.out])

RECURSIVE b32Loop(_, _)
b32Loop(st, buf) ==
    IF buf = <<>> THEN st ELSE b32Loop(b32Byte(st, Head(buf)), Tail(buf))

\* a faulty variant of b32Pad: the final partial group is not shifted into place
b32PadUnshifted(val, bits) == And31(val)

\* (val<<(5-bits))&31
b32Pad(val, bits) == And31(Shl32(val, 5 - bits))

\* let bits=0,val=0,out=''
b32Start == [val |-> 0, bits |-> 0, out |-> <<>>]

\* if(bits>0) out+=B32[(val<<(5-bits))&31]; return out
b32Finish(st) ==
    IF st.bits > 0 THEN Append(st.out, B32[b32Pad(st.val, st.bits) + 1]) ELSE st.out

b32(buf) == b32Finish(b32Loop(b32Start, buf))

HexChars == <<"0", "1", "2", "3", "4", "5", "6", "7", "8", "9", "A", "B", "C", "D", "E", "F">>

HexVal(c) == (CHOOSE i \in DOMAIN HexChars : HexChars[i] = c) - 1

\* length of a raw address in hex characters: /^[0-9A-F]{48}$/
RawHexLen == 48

isRawHex(s) == Len(s) = RawHexLen /\ \A i \in DOMAIN s : s[i] \in Range(HexChars)

\* Buffer.from(cleaned,'hex') for a string of hex pairs
BufferFromHex(s) == [i \in 1..(Len(s) \div 2) |-> 16 * HexVal(s[2*i - 1]) + HexVal(s[2*i])]

INVALID_ADDRESS == <<"I", "N", "V", "A", "L", "I", "D", "_", "A", "D", "D", "R", "E", "S", "S">>

rawToAddr(hex) ==
    LET cleaned == norm(hex)
    IN  IF ~isRawHex(cleaned) THEN INVALID_ADDRESS ELSE b32(BufferFromHex(cleaned))


(***************************************************************************)
(* Amount formatting: BigInt toString, padStart, roundXYM, decXYM, impPct   *)
(***************************************************************************)
Digits == <<"0", "1", "2", "3", "4", "5", "6", "7", "8", "9">>

\* BigInt.prototype.toString of a non-negative value
RECURSIVE toString(_)
toString(n) ==
    IF n < 10 THEN <<Digits[n + 1]>> ELSE Append(toString(n \div 10), Digits[(n % 10) + 1])

\* a faulty variant of padStart: pads to one character less
padStartShort(s, w, c) == IF Len(s) >= w - 1 THEN s ELSE Repeat(c, w - 1 - Len(s)) \o s

\* String.prototype.padStart: s is returned unchanged when it is already w long
padStart(s, w, c) == IF Len(s) >= w THEN s ELSE Repeat(c, w - Len(s)) \o s

\* A thrown error is a one-element sequence holding its name, which no text is
TypeError == <<"TypeError">>
SyntaxError == <<"SyntaxError">>
RangeError == <<"RangeError">>
NoError == <<"none">>

\* BigInt(x) throws a TypeError for undefined and a SyntaxError for text that
\* is no integer literal; text here is never one
BigIntError(x) ==
    IF x.type = "undefined" THEN TypeError
    ELSE IF x.type = "string" THEN SyntaxError
    ELSE NoError

IsError(x) == x \in {TypeError, SyntaxError, RangeError}

\* ((a + b/2n) / b).toString() with a = BigInt(amount ?? 0), b = 10n ** BigInt(div)
roundXYM(amount, div) ==
    LET a0 == Coalesce(amount, JsNumber(0))
    IN  IF BigIntError(a0) # NoError THEN BigIntError(a0)
        ELSE IF BigIntError(div) # NoError THEN BigIntError(div)
        ELSE LET a == a0.value
                 b == 10^(div.value)
             IN  toString((a + b \div 2) \div b)

\* `${a/b}.${(a%b).toString().padStart(div,'0')}`
decXYM(amount, div) ==
    LET a0 == Coalesce(amount, JsNumber(0))
    IN  IF BigIntError(a0) # NoError THEN BigIntError(a0)
        ELSE IF BigIntError(div) # NoError THEN BigIntError(div)
        ELSE LET a == a0.value
                 b == 10^(div.value)
             IN  toString(a \div b) \o <<".">> \o padStart(toString(a % b), div.value, "0")

\* impPct: i*100n*scale/t rendered as `${v/scale}.${frac padded to 6}%`; the
\* division throws a RangeError when t is zero
impPct(imp, total) ==
    LET i0 == Coalesce(imp, JsNumber(0))
        t0 == Coalesce(total, JsNumber(1))
        scale == 10^6
    IN  IF BigIntError(i0) # NoError THEN BigIntError(i0)
        ELSE IF BigIntError(t0) # NoError THEN BigIntError(t0)
        ELSE IF t0.value = 0 THEN RangeError
        ELSE LET v == (i0.value * 100 * scale) \div t0.value
             IN  toString(v \div scale) \o <<".">>
                   \o padStart(toString(v % scale), 6, "0") \o <<"%">>

(***************************************************************************)
(* reward: the receipts of both statement queries paid to raw in mosaic    *)
(***************************************************************************)
\* s.statement?.receipts ?? s.receipts ?? []
receiptsOf(s) ==
    Coalesce(Coalesce(s.statement.receipts, s.receipts), JsArray(<<>>)).value

\* rc.recipientAddress ?? rc.targetAddress
recipientOf(rc) == Coalesce(rc.recipientAddress, rc.targetAddress)

receiptMatches(rc, raw, mosaic) == norm(recipientOf(rc)) = raw /\ norm(rc.mosaicId) = mosaic

RECURSIVE sumReceipts(_, _, _)
sumReceipts(rcs, raw, mosaic) ==
    IF rcs = <<>> THEN 0
    ELSE (IF receiptMatches(Head(rcs), raw, mosaic) THEN Head(rcs).amount ELSE 0)
           + sumReceipts(Tail(rcs), raw, mosaic)

RECURSIVE sumStatements(_, _, _)
sumStatements(data, raw, mosaic) ==
    IF data = <<>> THEN 0
    ELSE sumReceipts(receiptsOf(Head(data)), raw, mosaic)
           + sumStatements(Tail(data), raw, mosaic)

\* one pass of the loop of reward: try{ fetchJson; for(const s of r.data??[]) ... }catch{}
rewardQuery(resp, raw, mosaic) ==
    IF ~resp.ok THEN 0
    ELSE sumStatements(Coalesce(resp.body.data, JsArray(<<>>)).value, raw, mosaic)

\* a faulty variant of reward: a failed block-level query ends the aggregation
rewardStopsAtFailure(respBlock, respTx, raw, mosaic) ==
    IF ~respBlock.ok THEN 0
    ELSE rewardQuery(respBlock, raw, mosaic) + rewardQuery(respTx, raw, mosaic)

\* the block-level query, then the transaction-level query
reward(respBlock, respTx, raw, mosaic) ==
    rewardQuery(respBlock, raw, mosaic) + rewardQuery(respTx, raw, mosaic)

(***************************************************************************)
(* The remote node: what each request of main can be answered with         *)
(***************************************************************************)
DEFAULT_HTTP == "http://localhost:3000"
DEFAULT_HTTPS == "https://localhost:3001"

\* configured row limit (20 in the source, scaled down so that the limit is hit)
MAX_ROWS == 2

\* greatest block height the node returns
MaxHeight == 3

Heights == 1..MaxHeight
HarvestKeys == {"K1", "K2"}
MainKeys == {"M1"}
NoKey == "none"

\* fetchJson throws on a network error, a timeout, a status that is not ok, or a
\* body that is no JSON: the response is then not ok and has no body
Failed == [ok |-> FALSE, body |-> JsUndefined]
Answer(b) == [ok |-> TRUE, body |-> b]

Request(b, p, a, resp) == [base |-> b, path |-> p, arg |-> a, ok |-> resp.ok, body |-> resp.body]

CurrencyText == <<"0", "x", "6", "b", "'", "e", "d">>
EpochTexts == {JsUndefined, JsText(<<"s">>), JsText(<<"1", "2", "s">>)}
TotalImportances == {JsUndefined, JsNumber(0), JsNumber(2)}

NetResponses ==
    {Failed} \cup
    { Answer([network |-> [epochAdjustment |-> e],
              chain   |-> [currencyMosaicId |-> c, totalChainImportance |-> t]]) :
        e \in EpochTexts, c \in {JsUndefined, JsText(CurrencyText)}, t \in TotalImportances }

\* no currency has the empty identifier: the descriptor request for it fails or
\* answers without a descriptor
MosaicResponses(id) ==
    {Failed, Answer([mosaic |-> JsUndefined])} \cup
    (IF id = <<>> THEN {}
     ELSE { Answer([mosaic |-> [type |-> "object", divisibility |-> d]]) :
              d \in {JsUndefined, JsNumber(6)} })

UnlockedResponses ==
    {Failed} \cup
    { Answer([unlockedAccount |-> u]) :
        u \in {JsUndefined, JsArray(<<>>), JsArray(<<"K1">>), JsArray(<<"K1", "K2">>)} }

RECURSIVE DescSeq(_)
DescSeq(S) ==
    IF S = {} THEN <<>>
    ELSE LET m == CHOOSE x \in S : \A y \in S : y <= x IN <<m>> \o DescSeq(S \ {m})

\* a page of blocks signed by k, in descending order of height
BlockPage(k, S) ==
    LET hs == DescSeq(S) IN [i \in 1..Len(hs) |-> [height |-> hs[i], signerPublicKey |-> k]]

BlockResponses(k) ==
    {Failed, Answer([data |-> JsUndefined])} \cup
    { Answer([data |-> JsArray(BlockPage(k, S))]) : S \in SUBSET Heights }

AddressText == [k \in HarvestKeys \cup MainKeys |->
                  IF k = "K1" THEN <<"0", "x", "a", "1">>
                  ELSE IF k = "K2" THEN <<"b", "'", "2">>
                  ELSE <<"C", "3">>]

Account(k, linked) ==
    [address  |-> JsText(AddressText[k]),
     linked   |-> linked,
     importance |-> JsNumber(1),
     mosaics  |-> <<[id |-> JsText(<<"6", "B", "E", "D">>), amount |-> JsNumber(1500000)]>>]

AccountResponses(k) ==
    {Failed} \cup
    { Answer([account |-> Account(k, l)]) :
        l \in (IF k \in HarvestKeys THEN {NoKey} \cup MainKeys ELSE {NoKey}) }

Receipt(recipient, target, mosaic, amount) ==
    [recipientAddress |-> recipient, targetAddress |-> target, mosaicId |-> mosaic,
     amount |-> amount]

Statement(wrapped, plain) == [statement |-> [receipts |-> wrapped], receipts |-> plain]

\* the answer of a statement query that holds one receipt of 1 paid to raw
ReceiptAnswer(raw, mosaic) ==
    Answer([data |-> JsArray(<<Statement(
        JsArray(<<Receipt(JsUndefined, JsText(raw), JsText(mosaic), 1)>>), JsUndefined)>>)])

\* in the runs of main the block-level statement query fails or is answered and
\* the transaction-level one is answered; SpecReward covers every combination
BlockStatementResponses(raw, mosaic) == {Failed, ReceiptAnswer(raw, mosaic)}
TxStatementResponses(raw, mosaic) == {ReceiptAnswer(raw, mosaic)}

(***************************************************************************)
(* main                                                                    *)
(***************************************************************************)
IsDigit(c) == c \in Range(Digits)

\* net.network.epochAdjustment.match(/\d+/)[0] throws a TypeError when the field
\* is missing or holds no digit
epochThrows(e) == IsUndefined(e) \/ ~\E i \in DOMAIN e.value : IsDigit(e.value[i])

RECURSIVE Number(_)
Number(ds) ==
    IF ds = <<>> THEN 0
    ELSE 10 * Number(SubSeq(ds, 1, Len(ds) - 1))
           + ((CHOOSE i \in DOMAIN Digits : Digits[i] = ds[Len(ds)]) - 1)

\* the first maximal run of digits of the text, as a number
epochOf(e) ==
    LET t     == e.value
        first == CHOOSE i \in DOMAIN t : IsDigit(t[i]) /\ \A j \in 1..(i - 1) : ~IsDigit(t[j])
        last  == CHOOSE i \in first..Len(t) :
                    /\ \A j \in first..i : IsDigit(t[j])
                    /\ (i = Len(t) \/ ~IsDigit(t[i + 1]))
    IN  Number(SubSeq(t, first, last))

\* formatComma: a comma before every group of three trailing digits
RECURSIVE formatComma(_)
formatComma(ds) ==
    IF Len(ds) <= 3 THEN ds
    ELSE formatComma(SubSeq(ds, 1, Len(ds) - 3)) \o <<",">> \o SubSeq(ds, Len(ds) - 2, Len(ds))

\* a faulty variant of sortInsert: ascending order
sortInsertAsc(sorted, b) ==
    LET n == Cardinality({i \in DOMAIN sorted : sorted[i].height <= b.height})
    IN  SubSeq(sorted, 1, n) \o <<b>> \o SubSeq(sorted, n + 1, Len(sorted))

\* where the comparator of blocks.sort puts b: after every entry whose height is
\* greater or equal (the sort is stable)
sortInsert(sorted, b) ==
    LET n == Cardinality({i \in DOMAIN sorted : sorted[i].height >= b.height})
    IN  SubSeq(sorted, 1, n) \o <<b>> \o SubSeq(sorted, n + 1, Len(sorted))

RECURSIVE sortBlocks(_, _)
sortBlocks(sorted, rest) ==
    IF rest = <<>> THEN sorted ELSE sortBlocks(sortInsert(sorted, Head(rest)), Tail(rest))

\* the catch of main: console.error, process.exit(1)
Fatal == pc' = "fatal" /\ exit' = 1

Init ==
    /\ pc = "probeHttp"
    /\ reqs = <<>>
    /\ base = "none"
    /\ net = [props |-> JsUndefined, epoch |-> 0, mosaicId |-> <<>>,
              div |-> JsUndefined, totalImp |-> JsUndefined]
    /\ unlocked = <<>>
    /\ ki = 0
    /\ blocks = <<>>
    /\ bi = 0
    /\ seen = {}
    /\ rows = <<>>
    /\ accCache = <<>>
    /\ exit = "running"
    /\ input = "none"
    /\ output = "none"
    /\ work = "none"

\* resolveBaseUrl: try { return await probe(DEFAULT_HTTP); } catch {}
ProbeHttp ==
    /\ pc = "probeHttp"
    /\ \E resp \in {Failed, Answer(JsUndefined)} :
         /\ reqs' = Append(reqs, Request(DEFAULT_HTTP, "/node/health", "", resp))
         /\ IF resp.ok
            THEN base' = DEFAULT_HTTP /\ pc' = "netProps"
            ELSE base' = base /\ pc' = "probeHttps"
    /\ UNCHANGED <<net, unlocked, ki, blocks, bi, seen, rows, accCache, exit, funVars>>

\* a faulty variant of ProbeHttps: a failed probe is not noticed
ProbeHttpsUnchecked ==
    /\ pc = "probeHttps"
    /\ \E resp \in {Failed, Answer(JsUndefined)} :
         /\ reqs' = Append(reqs, Request(DEFAULT_HTTPS, "/node/health", "", resp))
         /\ base' = DEFAULT_HTTPS /\ pc' = "netProps" /\ exit' = exit
    /\ UNCHANGED <<net, unlocked, ki, blocks, bi, seen, rows, accCache, funVars>>

\* resolveBaseUrl: return probe(DEFAULT_HTTPS)
ProbeHttps ==
    /\ pc = "probeHttps"
    /\ \E resp \in {Failed, Answer(JsUndefined)} :
         /\ reqs' = Append(reqs, Request(DEFAULT_HTTPS, "/node/health", "", resp))
         /\ IF resp.ok
            THEN base' = DEFAULT_HTTPS /\ pc' = "netProps" /\ exit' = exit
            ELSE base' = base /\ Fatal
    /\ UNCHANGED <<net, unlocked, ki, blocks, bi, seen, rows, accCache, funVars>>

\* net = await fetchJson(base,'/network/properties'); epoch; mosaicId
NetProps ==
    /\ pc = "netProps"
    /\ \E resp \in NetResponses :
         /\ reqs' = Append(reqs, Request(base, "/network/properties", "", resp))
         /\ IF ~resp.ok \/ epochThrows(resp.body.network.epochAdjustment)
            THEN Fatal /\ net' = net
            ELSE /\ net' = [net EXCEPT !.props = resp.body,
                                       !.epoch = epochOf(resp.body.network.epochAdjustment),
                                       !.mosaicId = norm(resp.body.chain.currencyMosaicId)]
                 /\ pc' = "mosaic" /\ exit' = exit
    /\ UNCHANGED <<base, unlocked, ki, blocks, bi, seen, rows, accCache, funVars>>

\* mosaic = await fetchJson(base,`/mosaics/${mosaicId}`); div; totalImp
Mosaic ==
    /\ pc = "mosaic"
    /\ \E resp \in MosaicResponses(net.mosaicId) :
         /\ reqs' = Append(reqs, Request(base, "/mosaics/", net.mosaicId, resp))
         /\ IF ~resp.ok \/ IsUndefined(resp.body.mosaic)
            THEN Fatal /\ net' = net
            ELSE /\ net' = [net EXCEPT !.div = resp.body.mosaic.divisibility,
                                       !.totalImp = net.props.chain.totalChainImportance]
                 /\ pc' = "unlocked" /\ exit' = exit
    /\ UNCHANGED <<base, unlocked, ki, blocks, bi, seen, rows, accCache, funVars>>

\* unlocked = (await fetchJson(base,'/node/unlockedaccount')).unlockedAccount;
\* for(const k of unlocked) throws a TypeError when the field is missing
Unlocked ==
    /\ pc = "unlocked"
    /\ \E resp \in UnlockedResponses :
         /\ reqs' = Append(reqs, Request(base, "/node/unlockedaccount", "", resp))
         /\ IF ~resp.ok \/ IsUndefined(resp.body.unlockedAccount)
            THEN Fatal /\ unlocked' = unlocked
            ELSE /\ unlocked' = resp.body.unlockedAccount.value
                 /\ pc' = "collect" /\ exit' = exit
    /\ UNCHANGED <<base, net, ki, blocks, bi, seen, rows, accCache, funVars>>

\* a faulty variant of blocksAfter: a failed request drops what was collected so far
blocksAfterFailureClears(bs, resp) ==
    IF resp.ok THEN bs \o Coalesce(resp.body.data, JsArray(<<>>)).value ELSE <<>>

\* try{ r=await fetchJson(...); r.data?.forEach(v=>blocks.push(v.block)); }catch{}
blocksAfter(bs, resp) ==
    IF resp.ok THEN bs \o Coalesce(resp.body.data, JsArray(<<>>)).value ELSE bs

\* one pass of for(const k of unlocked), up to and including the sleep
Collect ==
    /\ pc = "collect"
    /\ ki < Len(unlocked)
    /\ \E resp \in BlockResponses(unlocked[ki + 1]) :
         /\ reqs' = Append(reqs, Request(base, "/blocks", unlocked[ki + 1], resp))
         /\ blocks' = blocksAfter(blocks, resp)
    /\ ki' = ki + 1
    /\ UNCHANGED <<pc, base, net, unlocked, bi, seen, rows, accCache, exit, funVars>>

\* blocks.sort(...) by BigInt(height), descending
Sort ==
    /\ pc = "collect"
    /\ ki = Len(unlocked)
    /\ blocks' = sortBlocks(<<>>, blocks)
    /\ pc' = "rows"
    /\ UNCHANGED <<reqs, base, net, unlocked, ki, bi, seen, rows, accCache, exit, funVars>>

\* a faulty variant of seenHas: no height is ever taken as seen
seenHasNever(s, h) == FALSE

\* seen.has(b.height)
seenHas(s, h) == h \in s

\* rows.length>=MAX_ROWS
limitReached(rs) == Len(rs) >= MAX_ROWS

\* the head of for(const b of blocks): continue on a seen height, break at the limit
RowStep ==
    /\ pc = "rows"
    /\ IF bi = Len(blocks)
       THEN pc' = "print" /\ bi' = bi /\ seen' = seen
       ELSE IF seenHas(seen, blocks[bi + 1].height)
       THEN pc' = pc /\ bi' = bi + 1 /\ seen' = seen
       ELSE /\ seen' = seen \cup {blocks[bi + 1].height}
            /\ bi' = bi
            /\ pc' = IF limitReached(rows) THEN "print" ELSE "accSigner"
    /\ UNCHANGED <<reqs, base, net, unlocked, ki, blocks, rows, accCache, exit, funVars>>

\* a faulty variant of cacheHas: the cache is never hit
cacheHasNever(k) == FALSE

\* accCache.has(k)
cacheHas(k) == k \in DOMAIN accCache

\* getAcc: if(!accCache.has(k)) accCache.set(k,(await fetchJson(...)).account)
getAcc(k, next) ==
    IF cacheHas(k)
    THEN reqs' = reqs /\ accCache' = accCache /\ pc' = next /\ exit' = exit
    ELSE \E resp \in AccountResponses(k) :
           /\ reqs' = Append(reqs, Request(base, "/accounts/", k, resp))
           /\ IF resp.ok
              THEN /\ accCache' = (k :> resp.body.account) @@ accCache
                   /\ pc' = next /\ exit' = exit
              ELSE accCache' = accCache /\ Fatal

\* rAcc.supplementalPublicKeys?.linked?.publicKey ?? b.signerPublicKey
mainKeyOf(b) ==
    LET rAcc == accCache[b.signerPublicKey]
    IN  IF rAcc.linked = NoKey THEN b.signerPublicKey ELSE rAcc.linked

\* rAcc = await getAcc(b.signerPublicKey)
GetAccSigner ==
    /\ pc = "accSigner"
    /\ getAcc(blocks[bi + 1].signerPublicKey, "accMain")
    /\ UNCHANGED <<base, net, unlocked, ki, blocks, bi, seen, rows, funVars>>

\* acc = await getAcc(mainKey)
GetAccMain ==
    /\ pc = "accMain"
    /\ getAcc(mainKeyOf(blocks[bi + 1]), "reward")
    /\ UNCHANGED <<base, net, unlocked, ki, blocks, bi, seen, rows, funVars>>

\* acc.mosaics.find(m=>norm(m.id)===mosaicId)?.amount ?? 0
balanceOf(acc, mosaicId) ==
    LET hit == { i \in DOMAIN acc.mosaics : norm(acc.mosaics[i].id) = mosaicId }
    IN  IF hit = {} THEN JsNumber(0)
        ELSE Coalesce(acc.mosaics[CHOOSE i \in hit : \A j \in hit : i <= j].amount, JsNumber(0))

XYM == <<"X", "Y", "M">>

\* the row of a block; the column time is left out (jstString never throws)
rowOf(b, acc, rew, n) ==
    [no      |-> toString(n),
     linkKey |-> b.signerPublicKey,
     addr    |-> rawToAddr(JsText(norm(acc.address))),
     balance |-> formatComma(roundXYM(balanceOf(acc, net.mosaicId), net.div)) \o XYM,
     imp     |-> impPct(acc.importance, net.totalImp),
     height  |-> b.height,
     reward  |-> decXYM(JsNumber(rew), net.div) \o XYM]

\* what building the row throws: roundXYM, impPct and decXYM use BigInt
rowThrows(acc) ==
    \/ IsError(roundXYM(balanceOf(acc, net.mosaicId), net.div))
    \/ IsError(impPct(acc.importance, net.totalImp))

\* rew = await reward(...); rows.push({...})
AssembleRow ==
    /\ pc = "reward"
    /\ LET b   == blocks[bi + 1]
           acc == accCache[mainKeyOf(b)]
           raw == norm(acc.address)
       IN  \E respBlock \in BlockStatementResponses(acc.address.value, CurrencyText),
              respTx \in TxStatementResponses(acc.address.value, CurrencyText) :
             /\ reqs' = reqs \o <<Request(base, "/statements/block", b.height, respBlock),
                                  Request(base, "/statements/transaction", b.height, respTx)>>
             /\ IF rowThrows(acc)
                THEN Fatal /\ rows' = rows /\ bi' = bi
                ELSE /\ rows' = Append(rows, rowOf(b, acc,
                                   reward(respBlock, respTx, raw, net.mosaicId), Len(rows) + 1))
                     /\ bi' = bi + 1
                     /\ pc' = "rows" /\ exit' = exit
    /\ UNCHANGED <<base, net, unlocked, ki, blocks, seen, accCache, funVars>>

\* printTable(base,rows); writeCsv(rows); the process ends with status 0
Report ==
    /\ pc = "print"
    /\ pc' = "done"
    /\ exit' = 0
    /\ UNCHANGED <<reqs, base, net, unlocked, ki, blocks, bi, seen, rows, accCache, funVars>>

Next ==
    \/ ProbeHttp
    \/ ProbeHttps
    \/ NetProps
    \/ Mosaic
    \/ Unlocked
    \/ Collect
    \/ Sort
    \/ RowStep
    \/ GetAccSigner
    \/ GetAccMain
    \/ AssembleRow
    \/ Report

Spec == Init /\ [][Next]_vars

(***************************************************************************)
(* Specifications of the pure functions: the argument is drawn from a      *)
(* bounded set, main stays where it starts, and one step applies the       *)
(* function.                                                               *)
(***************************************************************************)
MainIdle ==
    /\ reqs = <<>>
    /\ base = "none"
    /\ net = [props |-> JsUndefined, epoch |-> 0, mosaicId |-> <<>>,
              div |-> JsUndefined, totalImp |-> JsUndefined]
    /\ unlocked = <<>>
    /\ ki = 0
    /\ blocks = <<>>
    /\ bi = 0
    /\ seen = {}
    /\ rows = <<>>
    /\ accCache = <<>>
    /\ exit = "running"

UnchangedMain == UNCHANGED <<reqs, base, net, unlocked, ki, blocks, bi, seen, rows, accCache, exit>>

(***************************************************************************)
(* rawToAddr                                                               *)
(***************************************************************************)
\* number of bytes of a raw address
RawBytes == 24

TestBytes == {0, 1, 90, 127, 128, 165, 255}

\* byte patterns: one byte everywhere, one byte among zeros, one byte among 255s,
\* and a ramp
TestBuffers ==
    { [i \in 1..RawBytes |-> b] : b \in TestBytes }
    \cup { [i \in 1..RawBytes |-> IF i = q THEN b ELSE 0] : q \in 1..RawBytes, b \in TestBytes }
    \cup { [i \in 1..RawBytes |-> IF i = q THEN b ELSE 255] : q \in 1..RawBytes, b \in TestBytes }
    \cup { [i \in 1..RawBytes |-> (37 * i + b) % 256] : b \in TestBytes }

toLowerCase(c) ==
    IF \E i \in DOMAIN UpperChars : UpperChars[i] = c
    THEN LowerChars[CHOOSE i \in DOMAIN UpperChars : UpperChars[i] = c]
    ELSE c

HexText(buf) ==
    [i \in 1..(2 * Len(buf)) |->
        IF i % 2 = 1 THEN HexChars[(buf[(i + 1) \div 2] \div 16) + 1]
        ELSE HexChars[(buf[i \div 2] % 16) + 1]]

LowerText(t) == [i \in DOMAIN t |-> toLowerCase(t[i])]

\* the ways the node writes the same raw address
Spellings(buf) ==
    LET h == HexText(buf)
    IN  {h, LowerText(h), <<"0", "x">> \o LowerText(h), <<"0", "X">> \o h,
         SubSeq(h, 1, 8) \o <<"'">> \o SubSeq(h, 9, Len(h))}

ValidAddrInputs ==
    { [hex |-> JsText(t), bytes |-> buf, valid |-> TRUE] :
        <<buf, t>> \in UNION { {buf} \X Spellings(buf) : buf \in TestBuffers } }

\* texts that do not normalize to 48 hex characters
MalformedTexts ==
    LET h == HexText([i \in 1..RawBytes |-> 165])
    IN  {<<>>, SubSeq(h, 1, 46), SubSeq(h, 1, 47), h \o <<"0">>, h \o <<"A", "5">>,
         <<"G">> \o SubSeq(h, 2, 48), SubSeq(h, 1, 47) \o <<"g">>,
         <<"0", "x", "0", "x">> \o SubSeq(h, 1, 46), <<"0", "x">> \o SubSeq(h, 1, 46),
         SubSeq(h, 1, 24) \o <<"_">> \o SubSeq(h, 26, 48)}

MalformedAddrInputs ==
    { [hex |-> x, bytes |-> <<>>, valid |-> FALSE] :
        x \in {JsUndefined} \cup { JsText(t) : t \in MalformedTexts } }

InitAddr ==
    /\ pc = "call"
    /\ input \in ValidAddrInputs \cup MalformedAddrInputs
    /\ output = <<>>
    /\ work = "none"
    /\ MainIdle

\* rawToAddr up to the call of b32
CallRawToAddr ==
    /\ pc = "call"
    /\ IF ~isRawHex(norm(input.hex))
       THEN output' = INVALID_ADDRESS /\ pc' = "return" /\ work' = work
       ELSE /\ work' = [buf |-> BufferFromHex(norm(input.hex)), st |-> b32Start]
            /\ pc' = "b32" /\ output' = output
    /\ input' = input
    /\ UnchangedMain

\* one pass of for(const b of buf)
B32Byte ==
    /\ pc = "b32"
    /\ work.buf # <<>>
    /\ work' = [buf |-> Tail(work.buf), st |-> b32Byte(work.st, Head(work.buf))]
    /\ UNCHANGED <<pc, input, output>>
    /\ UnchangedMain

\* the end of b32 and the return of rawToAddr
B32Return ==
    /\ pc = "b32"
    /\ work.buf = <<>>
    /\ output' = b32Finish(work.st)
    /\ pc' = "return"
    /\ UNCHANGED <<input, work>>
    /\ UnchangedMain

NextAddr == CallRawToAddr \/ B32Byte \/ B32Return

SpecAddr == InitAddr /\ [][NextAddr]_vars

\* bit i (from 0, most significant first) of the buffer; 0 beyond its end
BitOf(buf, i) ==
    IF i >= 8 * Len(buf) THEN 0 ELSE (buf[(i \div 8) + 1] \div 2^(7 - (i % 8))) % 2

\* the standard base-32 encoding: 5-bit groups, the last one zero-padded
StandardBase32(buf) ==
    [j \in 1..((8 * Len(buf) + 4) \div 5) |->
        B32[16 * BitOf(buf, 5*j - 5) + 8 * BitOf(buf, 5*j - 4) + 4 * BitOf(buf, 5*j - 3)
              + 2 * BitOf(buf, 5*j - 2) + BitOf(buf, 5*j - 1) + 1]]

\* C7: for a valid raw identifier (48 hex characters after normalization)
\* rawToAddr returns 39 symbols of the alphabet, the standard base-32 encoding
\* of its 24 bytes, although the accumulator of b32 is a 32-bit integer that is
\* never masked; for any other input it returns INVALID_ADDRESS
C7_RawToAddrIsBase32 ==
    pc = "return" =>
        IF input.valid
        THEN /\ Len(output) = 39
             /\ \A i \in DOMAIN output : output[i] \in Range(B32)
             /\ output = StandardBase32(input.bytes)
        ELSE output = INVALID_ADDRESS

\* an address whose bytes overflow the accumulator was encoded
C7_Witness ==
    /\ pc = "return"
    /\ input.valid
    /\ \A i \in DOMAIN input.bytes : input.bytes[i] = 255
    /\ Len(output) = 39

(***************************************************************************)
(* decXYM                                                                  *)
(***************************************************************************)
\* greatest divisibility tried
MaxDiv == 6

TestAmounts == {0, 1, 5, 9, 10, 42, 100, 99999, 999999, 1000000, 1000001, 1500000,
                2000000, 123456789, 2147483647}

InitDec ==
    /\ pc = "call"
    /\ input \in [amount : TestAmounts, div : 0..MaxDiv]
    /\ output = <<>>
    /\ work = "none"
    /\ MainIdle

CallDecXYM ==
    /\ pc = "call"
    /\ output' = decXYM(JsNumber(input.amount), JsNumber(input.div))
    /\ pc' = "return"
    /\ UNCHANGED <<input, work>>
    /\ UnchangedMain

SpecDec == InitDec /\ [][CallDecXYM]_vars

\* t is the decimal numeral of n, without leading zeros
IsNumeralOf(t, n) ==
    /\ Len(t) >= 1
    /\ \A i \in DOMAIN t : IsDigit(t[i])
    /\ Len(t) > 1 => t[1] # "0"
    /\ Number(t) = n

\* t is n written in exactly w digits, zero-padded
IsPaddedTo(t, n, w) ==
    /\ Len(t) = w
    /\ \A i \in DOMAIN t : IsDigit(t[i])
    /\ Number(t) = n

\* out is an integer part, a decimal point and a fractional part of w digits
IsFixedPoint(out, amount, d, w) ==
    \E q \in DOMAIN out :
        /\ out[q] = "."
        /\ IsNumeralOf(SubSeq(out, 1, q - 1), amount \div 10^d)
        /\ IsPaddedTo(SubSeq(out, q + 1, Len(out)), amount % 10^d, w)

\* C8 as stated: for every amount and every divisibility d >= 0 the reward
\* display is amount div 10^d, a decimal point, and amount mod 10^d zero-padded
\* to exactly d digits
C8_ExactlyDDigits ==
    pc = "return" => IsFixedPoint(output, input.amount, input.div, input.div)

\* C8 amended: the fractional part has exactly d digits for d >= 1 and is the
\* single digit 0 for d = 0; 1500000 at d = 6 gives "1.500000"
C8_FixedPointDisplay ==
    pc = "return" =>
        /\ IsFixedPoint(output, input.amount, input.div,
                        IF input.div = 0 THEN 1 ELSE input.div)
        /\ (input.amount = 1500000 /\ input.div = 6)
              => output = <<"1", ".", "5", "0", "0", "0", "0", "0">>

\* a fractional part that needs padding was displayed
C8_Witness ==
    /\ pc = "return"
    /\ input.amount = 1000001
    /\ input.div = 6
    /\ output = <<"1", ".", "0", "0", "0", "0", "0", "1">>

(***************************************************************************)
(* reward                                                                  *)
(***************************************************************************)
RewardRaw == <<"A", "1">>
RewardMosaic == <<"6", "B", "E", "D">>

\* receipts paid to the address in the currency, in the spellings of the node,
\* and receipts that are not
TestReceipts ==
    {Receipt(JsText(<<"0", "x", "a", "1">>), JsUndefined, JsText(<<"6", "b", "e", "d">>), 5),
     Receipt(JsUndefined, JsText(<<"A", "'", "1">>), JsText(<<"0", "x", "6", "B", "E", "D">>), 7),
     Receipt(JsText(<<"B", "2">>), JsText(<<"a", "1">>), JsText(<<"6", "B", "E", "D">>), 11),
     Receipt(JsText(<<"A", "1">>), JsUndefined, JsText(<<"A", "A", "A", "A">>), 13)}

\* greatest number of receipts of a statement
MaxReceipts == 2

ReceiptLists == UNION { [1..n -> TestReceipts] : n \in 0..MaxReceipts }

TestStatements ==
    { Statement(JsArray(rs), JsUndefined) : rs \in ReceiptLists }
    \cup { Statement(JsUndefined, JsArray(rs)) : rs \in ReceiptLists }
    \cup { Statement(JsArray(rs), JsArray(<<r>>)) :
             rs \in { x \in ReceiptLists : Len(x) <= 1 }, r \in TestReceipts }
    \cup { Statement(JsUndefined, JsUndefined) }

StatementLists ==
    {<<>>} \cup { <<st>> : st \in TestStatements }
    \cup { <<Statement(JsArray(<<r>>), JsUndefined), st>> :
             r \in TestReceipts, st \in { x \in TestStatements : IsUndefined(x.statement.receipts) } }

TestStatementResponses ==
    {Failed, Answer([data |-> JsUndefined])}
    \cup { Answer([data |-> JsArray(d)]) : d \in StatementLists }

\* the transaction-level answers are fewer, to keep the product small
TestTxResponses ==
    {Failed, Answer([data |-> JsUndefined])}
    \cup { Answer([data |-> JsArray(<<st>>)]) :
             st \in { x \in TestStatements :
                        /\ ~IsUndefined(x.statement.receipts)
                        /\ IsUndefined(x.receipts) } }

InitReward ==
    /\ pc = "call"
    /\ input \in [respBlock : TestStatementResponses, respTx : TestTxResponses]
    /\ output = 0
    /\ work = "none"
    /\ MainIdle

CallReward ==
    /\ pc = "call"
    /\ output' = reward(input.respBlock, input.respTx, RewardRaw, RewardMosaic)
    /\ pc' = "return"
    /\ UNCHANGED <<input, work>>
    /\ UnchangedMain

SpecReward == InitReward /\ [][CallReward]_vars

\* the receipts an answered query lists: those under statement when present,
\* else those beside it
ListedReceipts(resp) ==
    IF ~resp.ok \/ IsUndefined(resp.body.data) THEN <<>>
    ELSE Concat([i \in DOMAIN resp.body.data.value |->
                   LET st == resp.body.data.value[i]
                   IN  IF ~IsUndefined(st.statement.receipts) THEN st.statement.receipts.value
                       ELSE IF ~IsUndefined(st.receipts) THEN st.receipts.value
                       ELSE <<>>])

\* the amounts of the receipts of the list whose normalized recipient and
\* normalized currency are the given ones
PaidTo(rcs, raw, mosaic) ==
    SeqSum([i \in DOMAIN rcs |->
              IF /\ norm(IF IsUndefined(rcs[i].recipientAddress) THEN rcs[i].targetAddress
                         ELSE rcs[i].recipientAddress) = raw
                 /\ norm(rcs[i].mosaicId) = mosaic
              THEN rcs[i].amount ELSE 0])

\* C3: reward returns the exact sum of the amounts of the matching receipts of
\* both statement queries; a query that fails contributes zero and the other
\* query's matching receipts are all counted
C3_RewardIsExactSum ==
    pc = "return" =>
        output = PaidTo(ListedReceipts(input.respBlock), RewardRaw, RewardMosaic)
                   + PaidTo(ListedReceipts(input.respTx), RewardRaw, RewardMosaic)

\* the block-level query failed and the transaction-level receipts were counted
C3_Witness ==
    /\ pc = "return"
    /\ ~input.respBlock.ok
    /\ input.respTx.ok
    /\ output = 12

(***************************************************************************)
(* Properties of main, stated over the requests issued and their answers   *)
(***************************************************************************)
RequestsTo(path) == SelectSeq(reqs, LAMBDA r : r.path = path)

BlockRequests == RequestsTo("/blocks")

\* the blocks of the answered requests among brs, in request order
BlocksOf(brs) ==
    Concat([i \in DOMAIN brs |->
              IF brs[i].ok /\ ~IsUndefined(brs[i].body.data)
              THEN brs[i].body.data.value ELSE <<>>])

\* the blocks of the block-listing requests that were answered
ReturnedBlocks == BlocksOf(BlockRequests)

HeightsOf(bs) == { bs[i].height : i \in DOMAIN bs }

ReturnedHeights == HeightsOf(ReturnedBlocks)

Count(sq, x) == Cardinality({ i \in DOMAIN sq : sq[i] = x })

SameBlocks(a, b) == \A x \in Range(a) \cup Range(b) : Count(a, x) = Count(b, x)

RowHeights == { rows[i].height : i \in DOMAIN rows }

Min(a, b) == IF a <= b THEN a ELSE b

\* C1: the rows accumulated by row assembly never hold two rows of equal
\* height, their heights are strictly descending in row order, and there are
\* never more than MAX_ROWS of them
C1_RowsDistinctDescendingLimited ==
    /\ \A i, j \in DOMAIN rows : i # j => rows[i].height # rows[j].height
    /\ \A i \in DOMAIN rows : i > 1 => rows[i - 1].height > rows[i].height
    /\ Len(rows) <= MAX_ROWS

\* a height returned under two keys and more heights than the limit: the report
\* has MAX_ROWS rows
C1_Witness ==
    /\ pc = "done"
    /\ Len(rows) = MAX_ROWS
    /\ Cardinality(ReturnedHeights) > MAX_ROWS
    /\ \E i, j \in DOMAIN ReturnedBlocks :
         /\ ReturnedBlocks[i].height = ReturnedBlocks[j].height
         /\ ReturnedBlocks[i].signerPublicKey # ReturnedBlocks[j].signerPublicKey

\* C2: a failed block-listing request adds no block and raises no error, and
\* the request of every later key is still issued: the keys are queried one by
\* one in order, and the merged list holds exactly the blocks of the answered
\* requests
C2_FailedKeyContributesNothing ==
    pc \notin {"probeHttp", "probeHttps", "netProps", "mosaic", "unlocked"} =>
        LET brs == BlockRequests
        IN  /\ [i \in DOMAIN brs |-> brs[i].arg] = SubSeq(unlocked, 1, ki)
            /\ SameBlocks(blocks, BlocksOf(brs))
            /\ pc = "collect" => exit = "running"
            /\ pc # "collect" => ki = Len(unlocked)

\* the request of the first key failed, the second key's blocks were merged
C2_Witness ==
    /\ pc = "rows"
    /\ Len(BlockRequests) = 2
    /\ ~BlockRequests[1].ok
    /\ BlockRequests[2].ok
    /\ Len(blocks) = MaxHeight

AccountRequests == RequestsTo("/accounts/")

\* C4 as stated: a failed account lookup during row assembly is recovered
\* locally and the run does not abort with a fatal error
C4_AccountFailureRecovered ==
    (\E i \in DOMAIN AccountRequests : ~AccountRequests[i].ok) => pc # "fatal"

\* the answers of the metadata requests, when they were answered
NetAnswered == \E i \in DOMAIN reqs : reqs[i].path = "/network/properties" /\ reqs[i].ok
NetBody == RequestsTo("/network/properties")[1].body
MosaicAnswered == \E i \in DOMAIN reqs : reqs[i].path = "/mosaics/" /\ reqs[i].ok
MosaicBody == RequestsTo("/mosaics/")[1].body

\* a required field of the metadata is missing or malformed, or the total chain
\* importance is zero
MetadataMalformed ==
    \/ /\ NetAnswered
       /\ \/ epochThrows(NetBody.network.epochAdjustment)
          \/ IsUndefined(NetBody.chain.currencyMosaicId)
          \/ IsUndefined(NetBody.chain.totalChainImportance)
          \/ NetBody.chain.totalChainImportance = JsNumber(0)
    \/ /\ MosaicAnswered
       /\ \/ IsUndefined(MosaicBody.mosaic)
          \/ IsUndefined(MosaicBody.mosaic.divisibility)

\* C5 as stated: with malformed metadata the run never produces a report
C5_MalformedMetadataIsFatal == MetadataMalformed => pc \notin {"print", "done"}

IsProbe(r) == r.path = "/node/health"

\* C6: the candidates are probed in list order, each at most once, the second
\* only after the first probe failed; the first that answers is the endpoint of
\* every later request; if none answers the run ends with status 1 and no
\* further request is issued
C6_ProbesInOrder ==
    /\ \A i \in DOMAIN reqs :
         IF IsProbe(reqs[i])
         THEN \/ i = 1 /\ reqs[i].base = DEFAULT_HTTP
              \/ i = 2 /\ reqs[i].base = DEFAULT_HTTPS /\ ~reqs[1].ok
         ELSE reqs[i].base = base /\ base \in {DEFAULT_HTTP, DEFAULT_HTTPS}
    /\ Len(reqs) >= 1 =>
         /\ IsProbe(reqs[1])
         /\ reqs[1].ok => base = DEFAULT_HTTP
    /\ (Len(reqs) >= 2 /\ ~reqs[1].ok) =>
         /\ IsProbe(reqs[2])
         /\ reqs[2].ok => base = DEFAULT_HTTPS
         /\ ~reqs[2].ok => (pc = "fatal" /\ exit = 1 /\ Len(reqs) = 2)
    /\ (Len(reqs) = 1 /\ ~reqs[1].ok) => pc = "probeHttps"

\* the first candidate did not answer, the second did, and the report was
\* produced from it
C6_Witness ==
    /\ pc = "done"
    /\ ~reqs[1].ok
    /\ reqs[2].ok
    /\ Len(rows) > 0

UnlockedAnswered ==
    \E i \in DOMAIN reqs :
        /\ reqs[i].path = "/node/unlockedaccount"
        /\ reqs[i].ok
        /\ ~IsUndefined(reqs[i].body.unlockedAccount)

\* C9: once the harvester keys are known, the run aborts only if an account
\* lookup failed or the metadata is malformed; otherwise the heights of the
\* report rows are the min(MAX_ROWS, D) greatest of the D distinct heights
\* returned by the answered block-listing requests
C9_ReportHoldsGreatestHeights ==
    /\ (pc = "fatal" /\ UnlockedAnswered) =>
          \/ \E i \in DOMAIN AccountRequests : ~AccountRequests[i].ok
          \/ MetadataMalformed
    /\ pc = "done" =>
          LET hs == ReturnedHeights
          IN  /\ RowHeights = { h \in hs : Cardinality({ g \in hs : g > h }) < MAX_ROWS }
              /\ Len(rows) = Min(MAX_ROWS, Cardinality(hs))

\* more distinct heights than rows were returned, out of order across the keys
C9_Witness ==
    /\ pc = "done"
    /\ Cardinality(ReturnedHeights) > MAX_ROWS
    /\ Len(ReturnedBlocks) > Cardinality(ReturnedHeights)
    /\ \E i, j \in DOMAIN ReturnedBlocks :
         i < j /\ ReturnedBlocks[i].height < ReturnedBlocks[j].height

\* C10: at most one account lookup is requested per public key; a key is in the
\* cache exactly when its lookup succeeded, and the cache holds the snapshot
\* that lookup returned
C10_OneLookupPerKey ==
    \A k \in HarvestKeys \cup MainKeys :
        LET lookups == SelectSeq(reqs, LAMBDA r : r.path = "/accounts/" /\ r.arg = k)
        IN  /\ Len(lookups) <= 1
            /\ k \in DOMAIN accCache <=> (Len(lookups) = 1 /\ lookups[1].ok)
            /\ k \in DOMAIN accCache => accCache[k] = lookups[1].body.account

\* two rows whose signing key is its own main key: four references, one lookup
C10_Witness ==
    /\ pc = "done"
    /\ Len(rows) = 2
    /\ rows[1].linkKey = rows[2].linkKey
    /\ Len(AccountRequests) = 1

====
